---- MODULE Spec2Model ----
(***************************************************************************)
(* Sync core of the code-quality admin console: the in-memory data store   *)
(* (stores/dataStore.ts), the IndexedDB layer (storage/idbStorage.ts) and  *)
(* the remote client (api/dataApi.ts, api/client.ts), as one state         *)
(* machine.  Every await of the code is a step boundary: a network call    *)
(* is sent and its response delivered in separate steps, a store operation *)
(* first waits for its connection (getDB) and then for its transaction.    *)
(***************************************************************************)
EXTENDS Integers, Sequences, FiniteSets, TLC

\* ------------------------------------------------------------------ bounds
MaxCalls == 2     \* store and client operations called per run: pull, hydrate,
                  \* an edit, persistCurrent, a push
MaxRemote == 1    \* changes made to the server by other writers
MaxFailures == 1  \* local-store operations that fail

\* --------------------------------------------------------------- constants
Null == 0                       \* null / undefined / absent
Connection == 1                 \* an open IDBPDatabase
EMPTY_TAG_DATA == "EMPTY"       \* the empty tag aggregate
Rule(id, t) == [ruleId |-> id, title |-> t]

\* Slots of the two object stores.
SnapshotSlots == {"snapshot:origin", "snapshot:current", "snapshot:lastPush"}
MetaSlots     == {"meta:lastPullAt", "meta:lastPushAt", "meta:baseVersion"}
StoreOf(slot) == IF slot \in SnapshotSlots THEN "snapshots" ELSE "meta"

\* An empty snapshot slot (db.get gives undefined, loadSnapshot gives null).
NoSnapshot == [savedAt |-> Null, baseVersion |-> Null, rules |-> <<>>, tags |-> EMPTY_TAG_DATA]
LocalSnapshot(rules, tags, baseVersion, savedAt) ==
  [savedAt |-> savedAt, baseVersion |-> baseVersion, rules |-> rules, tags |-> tags]

VARIABLES
  mem,         \* DataState of the zustand store
  idb,         \* contents of the two IndexedDB object stores, by slot
  dbInstance,  \* the module's connection singleton: Null or the connection
  opens,       \* store operations waiting in getDB for openDB, in call order
  txq,         \* per object store, the transactions created and not yet run
  server,      \* the remote authority: version, rules, tags
  pulls,       \* the pull() calls: position and response
  pushes,      \* the push round trips: position, request and response
  hyd,         \* the hydrate() call: position and what its four loads returned
  clear,       \* the clearAll() call: position
  diff,        \* the last diff round trip: request and response
  nCalls,      \* operations called so far
  lastCall,    \* the operation called last
  prevCall,    \* the operation called before it
  nRemote,     \* remote changes so far
  nFail        \* store operations failed so far

vars == <<mem, idb, dbInstance, opens, txq, server, pulls, pushes,
          hyd, clear, diff, nCalls, lastCall, prevCall, nRemote, nFail>>

initialState ==
  [rules |-> <<>>, tags |-> EMPTY_TAG_DATA, baseVersion |-> Null,
   lastPullAt |-> Null, lastPushAt |-> Null,
   isLoading |-> FALSE, isHydrated |-> FALSE, error |-> "null"]

emptyStore ==
  [s \in SnapshotSlots \cup MetaSlots |-> IF s \in SnapshotSlots THEN NoSnapshot ELSE Null]

NoResponse == [version |-> Null, pulledAt |-> Null, rules |-> <<>>, tags |-> EMPTY_TAG_DATA]
IdlePull == [pc |-> "idle", resp |-> NoResponse, left |-> 0]

\* Timestamps are labels, unique to the event that made them: the server's
\* pulledAt and pushedAt of a request, the client's new Date() of a persist.
ServerTime(kind, n) == IF kind = "pull" THEN 100 + n ELSE 200 + n
ClientTime == 300 + nCalls + 1

\* ------------------------------------------------------- the IndexedDB layer
\* One store operation in flight: db.put (kind "put") or db.get (kind "get") on
\* a slot, for the call that awaits it (owner: the kind of call and its number).
Put(slot, val, t, id) == [kind |-> "put", slot |-> slot, val |-> val, t |-> t, id |-> id]
Get(slot, t, id)      == [kind |-> "get", slot |-> slot,
                          val |-> IF slot \in SnapshotSlots THEN NoSnapshot ELSE Null,
                          t |-> t, id |-> id]

\* clearAll: one transaction over both object stores.
Clear(t, id) == [kind |-> "clear", slot |-> "all", val |-> Null, t |-> t, id |-> id]

\* The operations of a list whose transaction covers an object store.
Covers(o, store) == o.kind = "clear" \/ StoreOf(o.slot) = store
OfStore(ops, store) == SelectSeq(ops, LAMBDA o : Covers(o, store))

\* getDB: with the singleton set, the caller goes on to create its transaction
\* in the same task; with the singleton null, every caller starts an openDB of
\* its own and waits for it.
getDB(ops) ==
  IF dbInstance # Null
    THEN /\ txq' = [st \in {"snapshots", "meta"} |-> txq[st] \o OfStore(ops, st)]
         /\ opens' = opens
    ELSE /\ opens' = opens \o ops
         /\ txq' = txq

\* saveSnapshot and saveMeta, up to their first await.
saveSnapshot(slot, snapshot, t, id) == Put(slot, snapshot, t, id)
saveMeta(slot, value, t, id) == Put(slot, value, t, id)
loadSnapshot(slot, t, id) == Get(slot, t, id)
loadMeta(slot, t, id) == Get(slot, t, id)

\* saveAfterPull with the two metadata values exchanged.
saveAfterPullSwapped(snapshot, t, id) ==
  << saveSnapshot("snapshot:origin", snapshot, t, id),
     saveSnapshot("snapshot:current", snapshot, t, id),
     saveMeta("meta:lastPullAt", snapshot.baseVersion, t, id),
     saveMeta("meta:baseVersion", snapshot.savedAt, t, id) >>

\* After a pull: origin, current, lastPullAt, baseVersion, called in this order.
saveAfterPull(snapshot, t, id) ==
  << saveSnapshot("snapshot:origin", snapshot, t, id),
     saveSnapshot("snapshot:current", snapshot, t, id),
     saveMeta("meta:lastPullAt", snapshot.savedAt, t, id),
     saveMeta("meta:baseVersion", snapshot.baseVersion, t, id) >>

\* saveAfterPush with the stamped snapshot put under snapshot:origin where
\* the code names snapshot:lastPush.
saveAfterPushToOrigin(snapshot, pushedAt, newVersion, t, id) ==
  LET updatedSnapshot == [snapshot EXCEPT !.baseVersion = newVersion, !.savedAt = pushedAt]
  IN << saveSnapshot("snapshot:origin", updatedSnapshot, t, id),
        saveSnapshot("snapshot:current", updatedSnapshot, t, id),
        saveMeta("meta:lastPushAt", pushedAt, t, id),
        saveMeta("meta:baseVersion", newVersion, t, id) >>

\* saveAfterPush that stores the snapshot as given, not the stamped one.
saveAfterPushUnstamped(snapshot, pushedAt, newVersion, t, id) ==
  << saveSnapshot("snapshot:lastPush", snapshot, t, id),
     saveSnapshot("snapshot:current", snapshot, t, id),
     saveMeta("meta:lastPushAt", pushedAt, t, id),
     saveMeta("meta:baseVersion", newVersion, t, id) >>

\* After a successful push: the snapshot stamped with newVersion and pushedAt.
saveAfterPush(snapshot, pushedAt, newVersion, t, id) ==
  LET updatedSnapshot == [snapshot EXCEPT !.baseVersion = newVersion, !.savedAt = pushedAt]
  IN << saveSnapshot("snapshot:lastPush", updatedSnapshot, t, id),
        saveSnapshot("snapshot:current", updatedSnapshot, t, id),
        saveMeta("meta:lastPushAt", pushedAt, t, id),
        saveMeta("meta:baseVersion", newVersion, t, id) >>

\* ------------------------------------------------------------------- pull
\* ?? with its operands exchanged.
CoalesceSecond(a, b) == IF b # Null THEN b ELSE a
Coalesce(a, b) == IF a # Null THEN a ELSE b      \* a ?? b

StoreErrorMessage == "store failure"               \* message of the store's error
PullUnknownError  == "network failure"             \* message of a failed pullData

\* The lowest pull not yet called.
FreePull == CHOOSE p \in 1..MaxCalls : pulls[p].pc = "idle" /\ \A q \in 1..(p-1) : pulls[q].pc # "idle"

\* GET /api/data/pull at the server: always the full current state.
pullData(p) ==
  [version |-> server.version, pulledAt |-> ServerTime("pull", p), rules |-> server.rules, tags |-> server.tags]

\* pull(): set({ isLoading: true, error: null }), then await pullData().  The
\* server's read of its state is taken with the call: the client cannot tell
\* when, before the response, the server read it.
PullStart ==
  /\ nCalls < MaxCalls
  /\ nCalls' = nCalls + 1
  /\ lastCall' = "pull"
  /\ prevCall' = lastCall
  /\ \E p \in 1..MaxCalls : pulls[p].pc = "idle"
  /\ pulls' = [pulls EXCEPT ![FreePull].pc = "resp", ![FreePull].resp = pullData(FreePull)]
  /\ mem' = [mem EXCEPT !.isLoading = TRUE, !.error = "null"]
  /\ UNCHANGED <<idb, dbInstance, opens, txq, server, pushes, hyd, clear, diff, nRemote, nFail>>

\* pull() that adds the pulled rules to those in memory.
PullDeliverAppends(p) ==
  /\ pulls[p].pc = "resp"
  /\ LET pullRes == pulls[p].resp
         rules == mem.rules \o pullRes.rules
         tags == pullRes.tags
         baseVersion == pullRes.version
         lastPullAt == pullRes.pulledAt
         snapshot == LocalSnapshot(rules, tags, baseVersion, lastPullAt)
     IN /\ mem' = [mem EXCEPT !.rules = rules, !.tags = tags, !.baseVersion = baseVersion,
                              !.lastPullAt = lastPullAt, !.isLoading = FALSE, !.error = "null"]
        /\ getDB(saveAfterPull(snapshot, "pull", p))
  /\ pulls' = [pulls EXCEPT ![p].pc = "saving", ![p].left = 4]
  /\ UNCHANGED <<idb, dbInstance, server, pushes, hyd, clear, diff, nCalls, lastCall, prevCall, nRemote, nFail>>

\* The response reaches the client: the store is updated, then saveAfterPull
\* is called and awaited.
PullDeliver(p) ==
  /\ pulls[p].pc = "resp"
  /\ LET pullRes == pulls[p].resp
         rules == pullRes.rules
         tags == pullRes.tags
         baseVersion == pullRes.version
         lastPullAt == pullRes.pulledAt
         snapshot == LocalSnapshot(rules, tags, baseVersion, lastPullAt)
     IN /\ mem' = [mem EXCEPT !.rules = rules, !.tags = tags, !.baseVersion = baseVersion,
                              !.lastPullAt = lastPullAt, !.isLoading = FALSE, !.error = "null"]
        /\ getDB(saveAfterPull(snapshot, "pull", p))
  /\ pulls' = [pulls EXCEPT ![p].pc = "saving", ![p].left = 4]
  /\ UNCHANGED <<idb, dbInstance, server, pushes, hyd, clear, diff, nCalls, lastCall, prevCall, nRemote, nFail>>

\* pullData rejects (no response, or a non-2xx one): the catch block.
PullFail(p) ==
  /\ pulls[p].pc = "resp"
  /\ pulls' = [pulls EXCEPT ![p].pc = "rejected"]
  /\ mem' = [mem EXCEPT !.isLoading = FALSE, !.error = PullUnknownError]
  /\ UNCHANGED <<idb, dbInstance, opens, txq, server, pushes, hyd, clear, diff, nCalls, lastCall, prevCall, nRemote, nFail>>

\* ------------------------------------------------- local edits and persist
\* persistCurrent without its baseVersion guard.
persistCurrentUnguarded(state) ==
  << saveSnapshot("snapshot:current",
                  LocalSnapshot(state.rules, state.tags, state.baseVersion, ClientTime),
                  "persist", 0) >>

\* persistCurrent(), up to its await: nothing before the first pull or
\* hydrate gave a baseVersion, else one saveSnapshot of the current state.
persistCurrent(state) ==
  IF state.baseVersion = Null
    THEN << >>
    ELSE << saveSnapshot("snapshot:current",
                         LocalSnapshot(state.rules, state.tags, state.baseVersion, ClientTime),
                         "persist", 0) >>

\* { ...r, ...updates }: the fields updates gives replace those of r.
Merge(r, updates) ==
  [f \in DOMAIN r |-> IF f \in DOMAIN updates THEN updates[f] ELSE r[f]]

MapRules(rules, ruleId, updates) ==
  [i \in 1..Len(rules) |-> IF rules[i].ruleId = ruleId THEN Merge(rules[i], updates) ELSE rules[i]]
\* deleteRule's filter with the test inverted.
FilterRulesKeepsOnly(rules, ruleId) == SelectSeq(rules, LAMBDA r : r.ruleId = ruleId)
FilterRules(rules, ruleId) == SelectSeq(rules, LAMBDA r : r.ruleId # ruleId)

\* set(...) followed by get().persistCurrent().catch(console.error)
Mutate(state) ==
  /\ nCalls < MaxCalls
  /\ nCalls' = nCalls + 1
  /\ lastCall' = "edit"
  /\ prevCall' = lastCall
  /\ mem' = state
  /\ getDB(persistCurrent(state))
  /\ UNCHANGED <<idb, dbInstance, server, pulls, pushes, hyd, clear, diff, nRemote, nFail>>

addRule(rule) ==
  Mutate([mem EXCEPT !.rules = Append(mem.rules, rule)])

updateRule(ruleId, updates) ==
  Mutate([mem EXCEPT !.rules = MapRules(mem.rules, ruleId, updates)])

deleteRule(ruleId) ==
  Mutate([mem EXCEPT !.rules = FilterRules(mem.rules, ruleId)])

setTags(tags) ==
  Mutate([mem EXCEPT !.tags = tags])

\* persistCurrent() called on its own.
PersistCurrentCall == Mutate(mem)

\* ---------------------------------------------------------------- hydrate
HydrateSlots == {"snapshot:current", "meta:lastPullAt", "meta:lastPushAt", "meta:baseVersion"}
IdleHydrate ==
  [pc |-> "idle", left |-> {}, snapshot |-> NoSnapshot,
   lastPullAt |-> Null, lastPushAt |-> Null, baseVersion |-> Null]

\* hydrate(): the four loads are started together.  The hydrate() that App
\* calls when it mounts after a reload is not counted among the operations
\* of the run.
HydrateStart ==
  /\ nCalls < MaxCalls \/ lastCall = "restart"
  /\ nCalls' = IF lastCall = "restart" THEN nCalls ELSE nCalls + 1
  /\ lastCall' = "hydrate"
  /\ prevCall' = lastCall
  /\ hyd.pc = "idle"
  /\ hyd' = [hyd EXCEPT !.pc = "reading", !.left = HydrateSlots]
  /\ getDB(<< loadSnapshot("snapshot:current", "hydrate", 0),
              loadMeta("meta:lastPullAt", "hydrate", 0),
              loadMeta("meta:lastPushAt", "hydrate", 0),
              loadMeta("meta:baseVersion", "hydrate", 0) >>)
  /\ UNCHANGED <<mem, idb, dbInstance, server, pulls, pushes, clear, diff, nRemote, nFail>>

\* hydrate that never takes the snapshot branch.
HydratedFromMeta(state, h) ==
  [state EXCEPT !.baseVersion = h.baseVersion,
                !.lastPullAt = h.lastPullAt,
                !.lastPushAt = h.lastPushAt,
                !.isHydrated = TRUE]

\* What hydrate sets once Promise.all has all four results.
Hydrated(state, h) ==
  IF h.snapshot # NoSnapshot
    THEN [state EXCEPT !.rules = h.snapshot.rules,
                       !.tags = h.snapshot.tags,
                       !.baseVersion = Coalesce(h.snapshot.baseVersion, h.baseVersion),
                       !.lastPullAt = Coalesce(h.lastPullAt, h.snapshot.savedAt),
                       !.lastPushAt = h.lastPushAt,
                       !.isHydrated = TRUE]
    ELSE [state EXCEPT !.baseVersion = h.baseVersion,
                       !.lastPullAt = h.lastPullAt,
                       !.lastPushAt = h.lastPushAt,
                       !.isHydrated = TRUE]

\* ------------------------------------------------------ the remote client
\* A response body (absent: present = FALSE).
NoData ==
  [present |-> FALSE, success |-> FALSE, error |-> "null", message |-> "null",
   newVersion |-> Null, pushedAt |-> Null, baseVersion |-> Null, currentVersion |-> Null]
PushSuccessResponse(newVersion, pushedAt) ==
  [NoData EXCEPT !.present = TRUE, !.success = TRUE, !.newVersion = newVersion, !.pushedAt = pushedAt]
PushConflictResponse(baseVersion, currentVersion) ==
  [NoData EXCEPT !.present = TRUE, !.error = "VERSION_CONFLICT", !.message = "conflict: pull first",
                 !.baseVersion = baseVersion, !.currentVersion = currentVersion]
ApiErrorResponse(code, message) ==
  [NoData EXCEPT !.present = TRUE, !.error = code, !.message = message]

\* isPushConflict testing for another error code.
isPushConflictOtherCode(res) == res.success = FALSE /\ res.error = "CONFLICT"
isPushConflict(res) == res.success = FALSE /\ res.error = "VERSION_CONFLICT"

\* isPushSuccess that takes any body for a success.
isPushSuccessAnyBody(res) == res.present
isPushSuccess(res) == res.success = TRUE

\* The response interceptor: a non-2xx response or a transport failure
\* (status Null) becomes one error with message, status, code, originalError.
UnknownErrorMessage == "unknown error"
\* The interceptor's fallback taking the transport's message for every status.
FallbackMessageOfTransport(status, transportMessage) ==
  IF transportMessage # "null" THEN transportMessage ELSE UnknownErrorMessage
FallbackMessage(status, transportMessage) ==
  IF status = 409 THEN "version conflict"
  ELSE IF status = 400 THEN "bad request"
  ELSE IF status = 404 THEN "not found"
  ELSE IF status = 500 THEN "internal server error"
  ELSE IF transportMessage # "null" THEN transportMessage
  ELSE UnknownErrorMessage
Normalize(response, transportMessage) ==
  LET status == response.status
      serverMessage == IF response.data.present THEN response.data.message ELSE "null"
  IN [message |-> IF serverMessage # "null" THEN serverMessage
                  ELSE FallbackMessage(status, transportMessage),
      status |-> status,
      code |-> IF response.data.present THEN response.data.error ELSE "null",
      originalError |-> [response |-> response, message |-> transportMessage]]

Is2xx(status) == status >= 200 /\ status < 300

\* No error: the call did not fail.
NoError ==
  [message |-> "null", status |-> Null, code |-> "null",
   originalError |-> [response |-> [status |-> Null, data |-> NoData], message |-> "null"]]

\* The message of the AxiosError: of a response with an error status, or
\* of a request that got no response.
TransportMessage(response) ==
  IF response.status = Null THEN "Network Error" ELSE "Request failed"

\* pushData without the 409 case: every failure is rethrown.
pushDataRethrows(response) ==
  IF Is2xx(response.status)
    THEN [resolved |-> TRUE, data |-> response.data, error |-> NoError]
    ELSE [resolved |-> FALSE, data |-> NoData,
          error |-> Normalize(response, TransportMessage(response))]

\* pushData: what the call gives for a response: resolved with a body, or
\* rejected with the normalized error.  A 409 with a body is a result.  error
\* is what the interceptor rejected with, which pushData caught.
pushData(response) ==
  IF Is2xx(response.status)
    THEN [resolved |-> TRUE, data |-> response.data, error |-> NoError]
    ELSE LET err == Normalize(response, TransportMessage(response))
         IN IF err.status = 409 /\ err.originalError.response.data.present
              THEN [resolved |-> TRUE, data |-> err.originalError.response.data, error |-> err]
              ELSE [resolved |-> FALSE, data |-> NoData, error |-> err]

\* ------------------------------------------------- the remote authority
\* hasConflict: baseVersion < currentVersion.
HasConflict(baseVersion, currentVersion) == baseVersion < currentVersion

\* POST /api/data/push at the server.
ServerPushResponse(req, k) ==
  IF ~req.force /\ HasConflict(req.baseVersion, server.version)
    THEN [status |-> 409, data |-> PushConflictResponse(req.baseVersion, server.version)]
    ELSE [status |-> 200, data |-> PushSuccessResponse(server.version + 1, ServerTime("push", k))]

\* What the transport may give instead of the server's answer: no response
\* at all, a 409 without a body or with another body, an error response.
TransportFailures ==
  { [status |-> Null, data |-> NoData],
    [status |-> 409, data |-> NoData],
    [status |-> 409, data |-> ApiErrorResponse("null", "conflict")],
    [status |-> 400, data |-> ApiErrorResponse("INVALID_DATA", "rules must be a list")],
    [status |-> 404, data |-> NoData],
    [status |-> 500, data |-> ApiErrorResponse("INTERNAL_ERROR", "null")] }

NoRequest == [baseVersion |-> Null, rules |-> <<>>, tags |-> EMPTY_TAG_DATA, force |-> FALSE]
IdlePush == [pc |-> "idle", req |-> NoRequest, resp |-> [status |-> Null, data |-> NoData],
             err |-> NoError, cur |-> Null, left |-> 0]

FreePush == CHOOSE k \in 1..MaxCalls : pushes[k].pc = "idle" /\ \A q \in 1..(k-1) : pushes[q].pc # "idle"

\* The caller sends the in-memory state with its baseVersion.  The server's
\* answer is taken with the call: the client cannot tell when, before the
\* response, the server handled the request.
PushStart(force) ==
  /\ nCalls < MaxCalls
  /\ nCalls' = nCalls + 1
  /\ lastCall' = "push"
  /\ prevCall' = lastCall
  /\ \E k \in 1..MaxCalls : pushes[k].pc = "idle"
  /\ mem.baseVersion # Null
  /\ LET k == FreePush
         req == [baseVersion |-> mem.baseVersion, rules |-> mem.rules, tags |-> mem.tags, force |-> force]
         res == ServerPushResponse(req, k)
     IN /\ pushes' = [pushes EXCEPT ![k] = [pc |-> "resp", req |-> req, resp |-> res, err |-> NoError,
                                            cur |-> server.version, left |-> 0]]
        /\ server' = IF res.status = 200
                       THEN [version |-> res.data.newVersion, rules |-> req.rules, tags |-> req.tags]
                       ELSE server
  /\ UNCHANGED <<mem, idb, dbInstance, opens, txq, pulls, hyd, clear, diff, nRemote, nFail>>

\* The transport gives a failure in place of the server's answer.
PushTransportFailure(k, response) ==
  /\ pushes[k].pc = "resp"
  /\ pushes[k].resp \notin TransportFailures
  /\ pushes' = [pushes EXCEPT ![k].resp = response]
  /\ UNCHANGED <<mem, idb, dbInstance, opens, txq, server, pulls, hyd, clear, diff, nCalls, lastCall, prevCall, nRemote, nFail>>

\* The caller of pushData: on success it records the push with saveAfterPush.
PushDeliver(k) ==
  /\ pushes[k].pc = "resp"
  /\ LET pushRes == pushData(pushes[k].resp)
         req == pushes[k].req
         currentSnapshot == LocalSnapshot(req.rules, req.tags, req.baseVersion, Null)
     IN IF pushRes.resolved /\ isPushSuccess(pushRes.data)
          THEN /\ getDB(saveAfterPush(currentSnapshot, pushRes.data.pushedAt,
                                      pushRes.data.newVersion, "push", k))
               /\ pushes' = [pushes EXCEPT ![k].pc = "saving", ![k].left = 4]
          ELSE /\ pushes' = [pushes EXCEPT ![k].pc =
                               IF ~pushRes.resolved THEN "rejected"
                               ELSE IF isPushConflict(pushRes.data) THEN "conflict" ELSE "unknown",
                                               ![k].err = pushRes.error]
               /\ UNCHANGED <<opens, txq>>
  /\ UNCHANGED <<mem, idb, dbInstance, server, pulls, hyd, clear, diff, nCalls, lastCall, prevCall, nRemote, nFail>>

\* POST /api/data/diff: the caller sends the in-memory baseVersion.
NoDiff == [baseVersion |-> Null, currentVersion |-> Null, hasConflict |-> FALSE]
diffData(baseVersion) ==
  [baseVersion |-> baseVersion, currentVersion |-> server.version,
   hasConflict |-> HasConflict(baseVersion, server.version)]
DiffCall ==
  /\ nCalls < MaxCalls
  /\ nCalls' = nCalls + 1
  /\ lastCall' = "diff"
  /\ prevCall' = lastCall
  /\ mem.baseVersion # Null
  /\ diff' = diffData(mem.baseVersion)
  /\ UNCHANGED <<mem, idb, dbInstance, opens, txq, server, pulls, pushes, hyd, clear, nRemote, nFail>>

\* Another writer replaces the server's data.
RemoteChange(rules, tags) ==
  /\ nRemote < MaxRemote
  /\ nRemote' = nRemote + 1
  /\ server' = [version |-> server.version + 1, rules |-> rules, tags |-> tags]
  /\ UNCHANGED <<mem, idb, dbInstance, opens, txq, pulls, pushes, hyd, clear, diff, nCalls, lastCall, prevCall, nFail>>

\* The page is reloaded once nothing is pending: the module state (the
\* zustand store, the connection singleton) starts again from its initial
\* values, the IndexedDB database keeps what was written.
Restart ==
  /\ Len(opens) = 0 /\ Len(txq["snapshots"]) = 0 /\ Len(txq["meta"]) = 0
  /\ \A p \in 1..MaxCalls : pulls[p].pc \notin {"resp", "saving"}
  /\ \A k \in 1..MaxCalls : pushes[k].pc \notin {"resp", "saving"}
  /\ hyd.pc # "reading"
  /\ clear # "pending"
  /\ mem' = initialState
  /\ dbInstance' = Null
  /\ hyd' = IdleHydrate
  /\ lastCall' = "restart"
  /\ prevCall' = lastCall
  /\ UNCHANGED <<idb, opens, txq, server, pulls, pushes, clear, diff, nCalls, nRemote, nFail>>

\* ------------------------------------------------ store operations settle
\* The call that awaits a store operation goes on when the operation settles:
\* ok with the value read (a get) or written (a put), or failed.
\*  - pull: Promise.all rejects at the first failure (the catch block runs),
\*    and resolves with the fourth success;
\*  - push: the same for the caller's await of saveAfterPush;
\*  - persist: persistCurrent logs a failure and returns;
\*  - hydrate: a failed load gives null; the fourth result runs the set.
\* pull() that takes a failed write of saveAfterPull for a success.
SettlePullSwallows(p, ok) ==
  /\ pulls' = [pulls EXCEPT ![p] =
        IF @.pc # "saving" THEN @
        ELSE IF @.left = 1 THEN [@ EXCEPT !.pc = "resolved", !.left = 0]
        ELSE [@ EXCEPT !.left = @ - 1]]
  /\ mem' = mem
  /\ UNCHANGED <<pushes, hyd, clear>>

SettlePull(p, ok) ==
  /\ pulls' = [pulls EXCEPT ![p] =
        IF @.pc # "saving" THEN @
        ELSE IF ~ok THEN [@ EXCEPT !.pc = "rejected"]
        ELSE IF @.left = 1 THEN [@ EXCEPT !.pc = "resolved", !.left = 0]
        ELSE [@ EXCEPT !.left = @ - 1]]
  /\ mem' = IF pulls[p].pc = "saving" /\ ~ok
              THEN [mem EXCEPT !.isLoading = FALSE, !.error = StoreErrorMessage]
              ELSE mem
  /\ UNCHANGED <<pushes, hyd, clear>>

\* The push caller taking a failed write of saveAfterPush for a success.
SettlePushSwallows(k, ok) ==
  /\ pushes' = [pushes EXCEPT ![k] =
        IF @.pc # "saving" THEN @
        ELSE IF @.left = 1 THEN [@ EXCEPT !.pc = "saved", !.left = 0]
        ELSE [@ EXCEPT !.left = @ - 1]]
  /\ UNCHANGED <<mem, pulls, hyd, clear>>

SettlePush(k, ok) ==
  /\ pushes' = [pushes EXCEPT ![k] =
        IF @.pc # "saving" THEN @
        ELSE IF ~ok THEN [@ EXCEPT !.pc = "savefailed"]
        ELSE IF @.left = 1 THEN [@ EXCEPT !.pc = "saved", !.left = 0]
        ELSE [@ EXCEPT !.left = @ - 1]]
  /\ UNCHANGED <<mem, pulls, hyd, clear>>

\* hydrate whose loads reject when they fail: Promise.all never gives the
\* four results.
SettleHydrateRejects(slot, ok, value) ==
  LET h == [hyd EXCEPT !.left = IF ok THEN @ \ {slot} ELSE @,
                       !.snapshot = IF slot = "snapshot:current" /\ ok THEN value ELSE @,
                       !.lastPullAt = IF slot = "meta:lastPullAt" /\ ok THEN value ELSE @,
                       !.lastPushAt = IF slot = "meta:lastPushAt" /\ ok THEN value ELSE @,
                       !.baseVersion = IF slot = "meta:baseVersion" /\ ok THEN value ELSE @]
  IN /\ hyd' = IF h.left = {} THEN [h EXCEPT !.pc = "done"] ELSE h
     /\ mem' = IF h.left = {} THEN Hydrated(mem, h) ELSE mem
     /\ UNCHANGED <<pulls, pushes, clear>>

SettleHydrate(slot, ok, value) ==
  LET got == IF ok THEN value ELSE IF slot \in SnapshotSlots THEN NoSnapshot ELSE Null
      h == [hyd EXCEPT !.left = @ \ {slot},
                       !.snapshot = IF slot = "snapshot:current" THEN got ELSE @,
                       !.lastPullAt = IF slot = "meta:lastPullAt" THEN got ELSE @,
                       !.lastPushAt = IF slot = "meta:lastPushAt" THEN got ELSE @,
                       !.baseVersion = IF slot = "meta:baseVersion" THEN got ELSE @]
  IN /\ hyd' = IF h.left = {} THEN [h EXCEPT !.pc = "done"] ELSE h
     /\ mem' = IF h.left = {} THEN Hydrated(mem, h) ELSE mem
     /\ UNCHANGED <<pulls, pushes, clear>>

\* clearAll settles: resolved, or rejected with the store's error.
SettleClear(ok) ==
  /\ clear' = IF ok THEN "resolved" ELSE "rejected"
  /\ UNCHANGED <<mem, pulls, pushes, hyd>>

\* A persist whose failure is recorded in the state's error.
SettleSurfacesPersist(op, ok) ==
  IF op.t = "pull" THEN SettlePull(op.id, ok)
  ELSE IF op.t = "push" THEN SettlePush(op.id, ok)
  ELSE IF op.t = "hydrate" THEN SettleHydrate(op.slot, ok, idb[op.slot])
  ELSE IF op.t = "clear" THEN SettleClear(ok)
  ELSE /\ mem' = IF ok THEN mem ELSE [mem EXCEPT !.error = StoreErrorMessage]
       /\ UNCHANGED <<pulls, pushes, hyd, clear>>

Settle(op, ok) ==
  IF op.t = "pull" THEN SettlePull(op.id, ok)
  ELSE IF op.t = "push" THEN SettlePush(op.id, ok)
  ELSE IF op.t = "hydrate" THEN SettleHydrate(op.slot, ok, idb[op.slot])
  ELSE IF op.t = "clear" THEN SettleClear(ok)
  ELSE UNCHANGED <<mem, pulls, pushes, hyd, clear>>

\* openDB succeeds for the caller that waited longest: the singleton is set
\* to this connection and the caller creates its transaction on it.
OpenDone ==
  /\ Len(opens) > 0
  /\ LET op == Head(opens)
     IN txq' = [st \in {"snapshots", "meta"} |->
                  IF Covers(op, st) THEN Append(txq[st], op) ELSE txq[st]]
  /\ opens' = Tail(opens)
  /\ dbInstance' = Connection
  /\ UNCHANGED <<mem, idb, server, pulls, pushes, hyd, clear, diff, nCalls, lastCall, prevCall, nRemote, nFail>>

\* openDB fails: getDB rejects, the singleton stays as it was.
OpenFail ==
  /\ Len(opens) > 0
  /\ nFail < MaxFailures
  /\ nFail' = nFail + 1
  /\ Settle(Head(opens), FALSE)
  /\ opens' = Tail(opens)
  /\ UNCHANGED <<idb, dbInstance, txq, server, diff, nCalls, lastCall, prevCall, nRemote>>

\* The oldest transaction of an object store runs: a put replaces the slot's
\* value, a get reads it.
RunTx(st) ==
  /\ Len(txq[st]) > 0
  /\ Head(txq[st]).kind # "clear"
  /\ LET op == Head(txq[st])
     IN /\ idb' = IF op.kind = "put" THEN [idb EXCEPT ![op.slot] = op.val] ELSE idb
        /\ Settle(op, TRUE)
  /\ txq' = [txq EXCEPT ![st] = Tail(@)]
  /\ UNCHANGED <<dbInstance, opens, server, diff, nCalls, lastCall, prevCall, nRemote, nFail>>

\* The transaction fails (quota, corruption): the slot keeps its value.
FailTx(st) ==
  /\ Len(txq[st]) > 0
  /\ Head(txq[st]).kind # "clear"
  /\ nFail < MaxFailures
  /\ nFail' = nFail + 1
  /\ Settle(Head(txq[st]), FALSE)
  /\ txq' = [txq EXCEPT ![st] = Tail(@)]
  /\ UNCHANGED <<idb, dbInstance, opens, server, diff, nCalls, lastCall, prevCall, nRemote>>

\* clearAll(): one readwrite transaction over both object stores.  It runs
\* once the transactions created before it on either store have run, and the
\* ones created after it wait for it.
ClearAllCall ==
  /\ nCalls < MaxCalls
  /\ nCalls' = nCalls + 1
  /\ lastCall' = "clear"
  /\ prevCall' = lastCall
  /\ clear # "pending"
  /\ clear' = "pending"
  /\ getDB(<< Clear("clear", 0) >>)
  /\ UNCHANGED <<mem, idb, dbInstance, server, pulls, pushes, hyd, diff, nRemote, nFail>>

ClearHead ==
  /\ Len(txq["snapshots"]) > 0 /\ Head(txq["snapshots"]).kind = "clear"
  /\ Len(txq["meta"]) > 0 /\ Head(txq["meta"]).kind = "clear"

\* The transaction of clearAll runs: both object stores are emptied.
RunClear ==
  /\ ClearHead
  /\ idb' = emptyStore
  /\ Settle(Head(txq["snapshots"]), TRUE)
  /\ txq' = [st \in {"snapshots", "meta"} |-> Tail(txq[st])]
  /\ UNCHANGED <<dbInstance, opens, server, diff, nCalls, lastCall, prevCall, nRemote, nFail>>

\* The transaction of clearAll fails: the stores keep their contents.
FailClear ==
  /\ ClearHead
  /\ nFail < MaxFailures
  /\ nFail' = nFail + 1
  /\ Settle(Head(txq["snapshots"]), FALSE)
  /\ txq' = [st \in {"snapshots", "meta"} |-> Tail(txq[st])]
  /\ UNCHANGED <<idb, dbInstance, opens, server, diff, nCalls, lastCall, prevCall, nRemote>>

\* ------------------------------------------------------- specifications
Init ==
  /\ mem = initialState
  /\ idb = emptyStore
  /\ dbInstance = Null
  /\ opens = << >>
  /\ txq = [st \in {"snapshots", "meta"} |-> << >>]
  /\ server = [version |-> 1, rules |-> << Rule("G1.A.1", "t0") >>, tags |-> EMPTY_TAG_DATA]
  /\ pulls = [p \in 1..MaxCalls |-> IdlePull]
  /\ pushes = [k \in 1..MaxCalls |-> IdlePush]
  /\ hyd = IdleHydrate
  /\ clear = "idle"
  /\ diff = NoDiff
  /\ nCalls = 0
  /\ lastCall = "none"
  /\ prevCall = "none"
  /\ nRemote = 0
  /\ nFail = 0

StoreStep ==
  \/ OpenDone
  \/ \E st \in {"snapshots", "meta"} : RunTx(st)

StoreFailure ==
  \/ OpenFail
  \/ \E st \in {"snapshots", "meta"} : FailTx(st)

PullStep ==
  \/ PullStart
  \/ \E p \in 1..MaxCalls : PullDeliver(p)
  \/ \E p \in 1..MaxCalls : PullFail(p)

EditStep ==
  \/ addRule(Rule("G1.B.2", "t0"))
  \/ updateRule("G1.A.1", [title |-> "t1"])
  \/ deleteRule("G1.A.1")
  \/ setTags("TAGS1")
  \/ PersistCurrentCall

\* The rule ids and patches the edits are called with: a rule the server
\* has and one it has not; the empty patch, a patch of a field, a patch that
\* names ruleId (updates is a Partial<Rule>).
RuleIds == {"G1.A.1", "G1.B.2"}
NoUpdates == [f \in {} |-> Null]

EditAny ==
  \/ \E id \in RuleIds : addRule(Rule(id, "t0"))
  \/ \E id \in RuleIds : updateRule(id, NoUpdates)
  \/ \E id \in RuleIds : updateRule(id, [title |-> "t1"])
  \/ \E id \in RuleIds : updateRule(id, [ruleId |-> "G1.B.2"])
  \/ \E id \in RuleIds : deleteRule(id)
  \/ setTags("TAGS1")

PushStep ==
  \/ \E force \in BOOLEAN : PushStart(force)
  \/ \E k \in 1..MaxCalls, r \in TransportFailures : PushTransportFailure(k, r)
  \/ \E k \in 1..MaxCalls : PushDeliver(k)

RemoteStep == RemoteChange(<<Rule("G1.A.1", "t1")>>, "TAGS1")

\* The client from boot: hydrate, pulls and local edits over the store.
Next == StoreStep \/ PullStep \/ EditStep \/ HydrateStart \/ RemoteStep

Spec == Init /\ [][Next]_vars

\* One operation at a time: a call is made only once the calls before it have
\* settled and their store operations have run.
NoPendingStore == Len(opens) = 0 /\ Len(txq["snapshots"]) = 0 /\ Len(txq["meta"]) = 0
NoneInFlight ==
  /\ \A p \in 1..MaxCalls : pulls[p].pc \notin {"resp", "saving"}
  /\ \A k \in 1..MaxCalls : pushes[k].pc \notin {"resp", "saving"}
  /\ hyd.pc # "reading"
  /\ clear # "pending"
Quiescent == NoPendingStore /\ NoneInFlight

\* Pull and the hydrate of each page load, called one at a time, over a
\* store whose operations may fail and a network that may fail.
NextFailure ==
  \/ StoreStep
  \/ StoreFailure
  \/ (Quiescent /\ PullStart)
  \/ \E p \in 1..MaxCalls : PullDeliver(p)
  \/ \E p \in 1..MaxCalls : PullFail(p)
  \/ (Quiescent /\ HydrateStart)
  \/ Restart

SpecFailure == Init /\ [][NextFailure]_vars

\* The same, where an operation the store has accepted is eventually run:
\* openDB settles, and the transactions of an object store run in turn.
SpecFailureFair == Init /\ [][NextFailure]_vars /\ WF_vars(StoreStep)

SeqCall ==
  /\ Quiescent
  /\ (PullStart \/ EditStep \/ HydrateStart \/ \E force \in BOOLEAN : PushStart(force))

NextSeq ==
  \/ StoreStep
  \/ SeqCall
  \/ \E p \in 1..MaxCalls : PullDeliver(p)
  \/ \E k \in 1..MaxCalls : PushDeliver(k)
  \/ RemoteStep

SpecSeq == Init /\ [][NextSeq]_vars

\* One operation at a time over a store whose operations may fail.
NextSeqFailure == NextSeq \/ StoreFailure

SpecSeqFailure == Init /\ [][NextSeqFailure]_vars

\* The callers of the storage layer, one at a time, over a store whose
\* operations may fail: pull (saveAfterPull), push (saveAfterPush), hydrate
\* (the loads) and clearAll.
NextStorage ==
  \/ StoreStep
  \/ StoreFailure
  \/ (Quiescent /\ PullStart)
  \/ \E p \in 1..MaxCalls : PullDeliver(p)
  \/ (Quiescent /\ \E force \in BOOLEAN : PushStart(force))
  \/ \E k \in 1..MaxCalls : PushDeliver(k)
  \/ (Quiescent /\ HydrateStart)
  \/ (Quiescent /\ ClearAllCall)
  \/ RunClear
  \/ FailClear

SpecStorage == Init /\ [][NextStorage]_vars

\* The same over page reloads.
NextRestart == NextSeq \/ Restart

SpecRestart == Init /\ [][NextRestart]_vars

\* The editor: every edit, on any rule id, at any time around a pull and
\* the hydrate of the boot.
NextEdit ==
  \/ StoreStep
  \/ PullStart
  \/ \E p \in 1..MaxCalls : PullDeliver(p)
  \/ HydrateStart
  \/ EditAny

SpecEdit == Init /\ [][NextEdit]_vars

\* A session that starts from the state a first pull leaves once it has
\* resolved: the server's data in memory and in snapshot:origin and
\* snapshot:current, its version in meta:baseVersion.  The operations
\* counted are those called from there on.
InitPulled ==
  LET pullRes == [version |-> 1, pulledAt |-> ServerTime("pull", 1),
                  rules |-> << Rule("G1.A.1", "t0") >>, tags |-> EMPTY_TAG_DATA]
      snapshot == LocalSnapshot(pullRes.rules, pullRes.tags, pullRes.version, pullRes.pulledAt)
  IN /\ mem = [initialState EXCEPT !.rules = pullRes.rules, !.tags = pullRes.tags,
                                   !.baseVersion = pullRes.version,
                                   !.lastPullAt = pullRes.pulledAt]
     /\ idb = [emptyStore EXCEPT !["snapshot:origin"] = snapshot,
                                 !["snapshot:current"] = snapshot,
                                 !["meta:lastPullAt"] = snapshot.savedAt,
                                 !["meta:baseVersion"] = snapshot.baseVersion]
     /\ dbInstance = Connection
     /\ opens = << >>
     /\ txq = [st \in {"snapshots", "meta"} |-> << >>]
     /\ server = [version |-> 1, rules |-> pullRes.rules, tags |-> pullRes.tags]
     /\ pulls = [p \in 1..MaxCalls |->
                  IF p = 1 THEN [pc |-> "resolved", resp |-> pullRes, left |-> 0] ELSE IdlePull]
     /\ pushes = [k \in 1..MaxCalls |-> IdlePush]
     /\ hyd = IdleHydrate
     /\ clear = "idle"
     /\ diff = NoDiff
     /\ nCalls = 0
     /\ lastCall = "pull"
     /\ prevCall = "none"
     /\ nRemote = 0
     /\ nFail = 0

SpecSession == InitPulled /\ [][NextRestart]_vars

\* The push round trip: pulls, local edits and pushes over the store.
NextPush == StoreStep \/ PullStep \/ EditStep \/ PushStep

SpecPush == Init /\ [][NextPush]_vars

\* The protocol calls: pull, diff and push, awaited one at a time, against a
\* server that other writers change, over a transport that may fail.
NextProtocol ==
  \/ StoreStep
  \/ (Quiescent /\ PullStart)
  \/ (Quiescent /\ \E force \in BOOLEAN : PushStart(force))
  \/ (Quiescent /\ DiffCall)
  \/ \E p \in 1..MaxCalls : PullDeliver(p)
  \/ \E p \in 1..MaxCalls : PullFail(p)
  \/ \E k \in 1..MaxCalls, r \in TransportFailures : PushTransportFailure(k, r)
  \/ \E k \in 1..MaxCalls : PushDeliver(k)
  \/ RemoteStep

SpecProtocol == Init /\ [][NextProtocol]_vars

\* ------------------------------------------------------------------ claims
\* An edit (addRule, updateRule, deleteRule, setTags) or a direct
\* persistCurrent is called in this step.
EditCalled == nCalls' = nCalls + 1 /\ lastCall' = "edit"

\* The transaction that runs in this step, if it changes a snapshot slot.
RunningSnapshotOp == Head(txq["snapshots"])

\* C1: a call of persistCurrent (directly or after an edit) made while the
\* in-memory baseVersion is null issues no store operation: nothing is
\* queued for the store and no slot or metadata key changes.
C1_NoPersistBeforeBaseVersion ==
  [][(EditCalled /\ mem'.baseVersion = Null) => UNCHANGED <<idb, opens, txq>>]_vars

\* An edit was the first call, made before any pull or hydrate: the rule is
\* in memory and the store is untouched.
C1_Witness ==
  /\ nCalls = 1 /\ lastCall = "edit"
  /\ mem.baseVersion = Null
  /\ mem.rules = << Rule("G1.B.2", "t0") >>
  /\ idb = emptyStore /\ NoPendingStore

C3_CurrentStoresMemoryBaseVersion ==
  [][idb'["snapshot:current"] # idb["snapshot:current"]
       => idb'["snapshot:current"].baseVersion = mem.baseVersion]_vars

\* C4: snapshot:origin changes only when a put issued by pull's
\* saveAfterPull runs; edits, persistCurrent and a recorded push leave it.
C4_OriginOnlyByPull ==
  [][idb'["snapshot:origin"] # idb["snapshot:origin"]
       => ( /\ Len(txq["snapshots"]) > 0
            /\ RunningSnapshotOp.t = "pull"
            /\ RunningSnapshotOp.slot = "snapshot:origin"
            /\ idb'["snapshot:origin"] = RunningSnapshotOp.val )]_vars

\* A pull wrote the origin, then a push was recorded: lastPush holds the
\* pushed version, origin still the pulled one.
C4_Witness ==
  \E k \in 1..MaxCalls :
    /\ pushes[k].pc = "saved"
    /\ idb["snapshot:lastPush"].baseVersion = pushes[k].resp.data.newVersion
    /\ idb["snapshot:origin"].baseVersion = pushes[k].req.baseVersion
    /\ idb["snapshot:origin"].savedAt = mem.lastPullAt

\* A push round trip that the caller has seen the end of.
Delivered(k) == pushes[k].pc \notin {"idle", "resp"}

C6_FailedPushChangesNothing ==
  [][\A k \in 1..MaxCalls :
       (pushes'[k] # pushes[k] /\ pushes'[k].resp.status # 200)
         => UNCHANGED <<mem, idb, opens, txq>>]_vars

\* A push ended in a conflict or a failure: no push was ever recorded in
\* the store and memory still has the baseVersion that was sent.
C6_Witness ==
  \E k \in 1..MaxCalls :
    /\ pushes[k].pc \in {"conflict", "rejected"}
    /\ mem.baseVersion = pushes[k].req.baseVersion
    /\ idb["snapshot:lastPush"] = NoSnapshot
    /\ idb["meta:lastPushAt"] = Null

\* The pull or push called last, with no call since.
LastPull(p) == lastCall = "pull" /\ pulls[p].pc # "idle" /\ (p = MaxCalls \/ pulls[p + 1].pc = "idle")
LastPush(k) == lastCall = "push" /\ pushes[k].pc # "idle" /\ (k = MaxCalls \/ pushes[k + 1].pc = "idle")

\* C7: when pull() has resolved with response R (calls made one at a time),
\* memory has R's rules, tags, version and pulledAt, snapshot:origin and
\* snapshot:current both are {rules, tags, baseVersion, savedAt = pulledAt},
\* meta:baseVersion is R.version and meta:lastPullAt is R.pulledAt.
C7_PullPostcondition ==
  \A p \in 1..MaxCalls :
    (LastPull(p) /\ pulls[p].pc = "resolved") =>
      LET R == pulls[p].resp
          snapshot == LocalSnapshot(R.rules, R.tags, R.version, R.pulledAt)
      IN /\ mem.rules = R.rules /\ mem.tags = R.tags
         /\ mem.baseVersion = R.version /\ mem.lastPullAt = R.pulledAt
         /\ idb["snapshot:origin"] = snapshot
         /\ idb["snapshot:current"] = snapshot
         /\ idb["meta:baseVersion"] = R.version
         /\ idb["meta:lastPullAt"] = R.pulledAt

\* A pull has resolved after another writer changed the server: memory and
\* the store hold version 2.
C7_Witness ==
  \E p \in 1..MaxCalls :
    /\ LastPull(p) /\ pulls[p].pc = "resolved"
    /\ pulls[p].resp.version = 2
    /\ idb["snapshot:origin"].baseVersion = 2

\* C8: when saveAfterPush(snapshot, pushedAt, newVersion) has succeeded
\* (calls made one at a time), snapshot:lastPush and snapshot:current both
\* are the snapshot with baseVersion = newVersion and savedAt = pushedAt,
\* meta:baseVersion is newVersion and meta:lastPushAt is pushedAt.
C8_SaveAfterPushPostcondition ==
  \A k \in 1..MaxCalls :
    (LastPush(k) /\ pushes[k].pc = "saved") =>
      LET req == pushes[k].req
          res == pushes[k].resp.data
          stamped == LocalSnapshot(req.rules, req.tags, res.newVersion, res.pushedAt)
      IN /\ idb["snapshot:lastPush"] = stamped
         /\ idb["snapshot:current"] = stamped
         /\ idb["meta:baseVersion"] = res.newVersion
         /\ idb["meta:lastPushAt"] = res.pushedAt

\* A push was recorded: the store has the new version under lastPush.
C8_Witness ==
  \E k \in 1..MaxCalls :
    /\ LastPush(k) /\ pushes[k].pc = "saved"
    /\ idb["snapshot:lastPush"].baseVersion = pushes[k].req.baseVersion + 1
    /\ idb["snapshot:lastPush"].rules = pushes[k].req.rules

\* C9: a pull, then an edit, and nothing else: once no store operation is
\* pending, snapshot:current holds the edited rules and tags (those in
\* memory) and snapshot:origin the data as pulled.
C9_CurrentHoldsEditOriginHoldsPull ==
  ( /\ pulls[1].pc = "resolved"
    /\ \A p \in 2..MaxCalls : pulls[p].pc = "idle"
    /\ hyd.pc = "idle"
    /\ lastCall = "edit"
    /\ NoPendingStore )
  => LET R == pulls[1].resp
     IN /\ idb["snapshot:current"].rules = mem.rules
        /\ idb["snapshot:current"].tags = mem.tags
        /\ idb["snapshot:origin"] = LocalSnapshot(R.rules, R.tags, R.version, R.pulledAt)

ContentOf(snapshot) ==
  [rules |-> snapshot.rules, tags |-> snapshot.tags, baseVersion |-> snapshot.baseVersion]

\* Pull p is the second of two successive pulls: the call before it was a
\* pull that resolved, nothing was called in between or since, and the
\* server gave both the same version (no remote change between them).
SecondPull(p) ==
  /\ p > 1 /\ LastPull(p) /\ prevCall = "pull"
  /\ pulls[p - 1].pc = "resolved"
  /\ pulls[p].resp.version = pulls[p - 1].resp.version

\* C11: pull is idempotent: no step of the second of two successive pulls
\* (its call, the delivery of its response, its store writes) changes the
\* in-memory rules, tags or baseVersion or the content of snapshot:current
\* other than savedAt.
C11_PullIdempotent ==
  [][\A p \in 1..MaxCalls :
       SecondPull(p)' =>
         /\ mem'.rules = mem.rules /\ mem'.tags = mem.tags
         /\ mem'.baseVersion = mem.baseVersion
         /\ ContentOf(idb'["snapshot:current"]) = ContentOf(idb["snapshot:current"])]_vars

\* The second pull has resolved: snapshot:current was written again, with
\* the second response's pulledAt.
C11_Witness ==
  \E p \in 1..MaxCalls :
    /\ SecondPull(p) /\ pulls[p].pc = "resolved"
    /\ idb["snapshot:current"].savedAt = pulls[p].resp.pulledAt
    /\ idb["snapshot:current"].savedAt # pulls[p - 1].resp.pulledAt

\* C12: a pull resolved, the page was reloaded and hydrate() has completed
\* as the first call after the reload, over the store as pull p left it
\* (snapshot:current is the one that pull saved): memory holds exactly the
\* pulled rules and tags and the pulled version as baseVersion.
C12_HydrateRestoresPull ==
  \A p \in 1..MaxCalls :
    ( /\ lastCall = "hydrate" /\ prevCall = "restart" /\ hyd.pc = "done"
      /\ pulls[p].pc = "resolved"
      /\ idb["snapshot:current"].savedAt = pulls[p].resp.pulledAt )
    => /\ mem.rules = pulls[p].resp.rules
       /\ mem.tags = pulls[p].resp.tags
       /\ mem.baseVersion = pulls[p].resp.version

\* Pull, reload, hydrate: the rule pulled is back in memory.
C12_Witness ==
  /\ lastCall = "hydrate" /\ prevCall = "restart" /\ hyd.pc = "done"
  /\ pulls[1].pc = "resolved"
  /\ idb["snapshot:current"].savedAt = pulls[1].resp.pulledAt
  /\ mem.rules = << Rule("G1.A.1", "t0") >> /\ mem.baseVersion = 1 /\ mem.isHydrated

\* The ruleIds of a list, in order.
IdsOf(rules) == [i \in 1..Len(rules) |-> rules[i].ruleId]
HasRule(rules, ruleId) == \E i \in 1..Len(rules) : rules[i].ruleId = ruleId

\* C13: the no-op edits leave the rules list as it was and signal no
\* failure: updateRule with the empty patch, updateRule of a ruleId the list
\* lacks, deleteRule of a ruleId the list lacks (as the second of two
\* successive deleteRule(id) is).
C13_NoOpEdits ==
  [][\A id \in RuleIds :
       ( \/ updateRule(id, NoUpdates)
         \/ ~HasRule(mem.rules, id) /\ updateRule(id, [title |-> "t1"])
         \/ ~HasRule(mem.rules, id) /\ updateRule(id, [ruleId |-> "G1.B.2"])
         \/ ~HasRule(mem.rules, id) /\ deleteRule(id) )
       => mem'.rules = mem.rules /\ mem'.error = mem.error /\ pulls' = pulls]_vars

\* After a resolved pull an edit was called that left the pulled rule as it
\* was, and its persist has written snapshot:current.
C13_Witness ==
  /\ nCalls = 2 /\ lastCall = "edit" /\ prevCall = "pull"
  /\ pulls[1].pc = "resolved"
  /\ mem.rules = << Rule("G1.A.1", "t0") >> /\ mem.tags = EMPTY_TAG_DATA
  /\ idb["snapshot:current"].savedAt = 302
  /\ idb["snapshot:current"].rules = mem.rules

\* C18: no updateRule call, whatever its patch, changes the ruleId of any
\* rule of the list.
C18_RuleIdNeverReassigned ==
  [][\A id \in RuleIds :
       ( \/ updateRule(id, NoUpdates)
         \/ updateRule(id, [title |-> "t1"])
         \/ updateRule(id, [ruleId |-> "G1.B.2"]) )
       => IdsOf(mem'.rules) = IdsOf(mem.rules)]_vars

\* No two rules of a list have the same ruleId.
UniqueIds(rules) ==
  \A i, j \in 1..Len(rules) : rules[i].ruleId = rules[j].ruleId => i = j

\* C19: the in-memory rules list never holds two rules with the same
\* ruleId (what the server gives, and so what is pulled and stored, has
\* distinct ruleIds).
C19_RuleIdUnique == UniqueIds(server.rules) => UniqueIds(mem.rules)

\* The ready state: hydrated, a baseVersion set, no pull or hydrate in flight.
Ready ==
  /\ mem.isHydrated /\ mem.baseVersion # Null
  /\ ~mem.isLoading /\ hyd.pc # "reading"
  /\ \A p \in 1..MaxCalls : pulls[p].pc \notin {"resp", "saving"}

\* C20: an edit (addRule, updateRule, deleteRule, setTags) called outside
\* the ready state changes neither the rules nor the tags.
C20_EditsOnlyWhenReady ==
  [][(EditCalled /\ ~Ready) => mem'.rules = mem.rules /\ mem'.tags = mem.tags]_vars

\* A store operation of pull p, awaited by the pull, fails in this step:
\* the openDB it waits for, or its transaction.
SaveAfterPullFails(p) ==
  \/ /\ OpenFail
     /\ Head(opens).t = "pull" /\ Head(opens).id = p
  \/ \E st \in {"snapshots", "meta"} :
       /\ FailTx(st)
       /\ Head(txq[st]).t = "pull" /\ Head(txq[st]).id = p

\* C14: when pull() fails, in the remote request or in saveAfterPull, the
\* call ends there: it is rejected (the failure goes to the caller),
\* isLoading is false and error holds a message.
C14_PullFailure ==
  [][\A p \in 1..MaxCalls :
       ( \/ PullFail(p)
         \/ pulls[p].pc = "saving" /\ SaveAfterPullFails(p) )
       => /\ pulls'[p].pc = "rejected"
          /\ mem'.isLoading = FALSE
          /\ mem'.error \in {PullUnknownError, StoreErrorMessage}]_vars

\* A pull was rejected by a failed write of saveAfterPull: the response is
\* in memory, the error is the store's.
C14_Witness ==
  /\ pulls[1].pc = "rejected" /\ nFail = 1
  /\ mem.baseVersion = 1 /\ mem.error = StoreErrorMessage /\ ~mem.isLoading

\* C15: a hydrate() that was called completes, with isHydrated true,
\* whichever of its four reads succeed, find nothing or fail; it has no
\* rejected outcome.
C15_HydrateCompletes ==
  (hyd.pc = "reading") ~> (hyd.pc = "done" /\ mem.isHydrated)

\* hydrate() has completed although its read of snapshot:current failed:
\* the slot holds a snapshot and hydrate got none.
C15_Witness ==
  /\ hyd.pc = "done" /\ mem.isHydrated /\ nFail >= 1
  /\ idb["snapshot:current"] # NoSnapshot /\ hyd.snapshot = NoSnapshot

\* What hydrate got for a slot.
HydrateGot(slot) ==
  IF slot = "snapshot:current" THEN hyd.snapshot
  ELSE IF slot = "meta:lastPullAt" THEN hyd.lastPullAt
  ELSE IF slot = "meta:lastPushAt" THEN hyd.lastPushAt
  ELSE hyd.baseVersion

\* hydrate() was the last call and has completed; the store is as its
\* reads found it.
HydrateDone == lastCall = "hydrate" /\ hyd.pc = "done"

\* A read of hydrate failed where it shows: the slot holds a value and
\* hydrate got none.
ReadFailed(slot) == idb[slot] # emptyStore[slot] /\ HydrateGot(slot) = emptyStore[slot]

\* C16: when a read of hydrate() failed, hydrate ends with isHydrated true
\* and the empty in-memory state: no rules, the empty tags, no baseVersion.
C16_FailedReadGivesEmptyState ==
  (HydrateDone /\ \E slot \in HydrateSlots : ReadFailed(slot))
    => /\ mem.isHydrated
       /\ mem.rules = << >> /\ mem.tags = EMPTY_TAG_DATA /\ mem.baseVersion = Null

\* hydrate() completes in this step: the last of its four reads settles.
HydrateCompletes == hyd.pc = "reading" /\ hyd'.pc = "done"

\* What a completing hydrate leaves apart from lastPullAt: with a snapshot
\* read, its rules and tags, and its baseVersion (that of the metadata if
\* the snapshot has none); with none read, the metadata's baseVersion and
\* lastPullAt over the rules and tags as they were; lastPushAt from the
\* metadata in both cases.
HydrateSources ==
  /\ mem'.isHydrated /\ mem'.lastPushAt = hyd'.lastPushAt
  /\ IF hyd'.snapshot # NoSnapshot
       THEN /\ mem'.rules = hyd'.snapshot.rules /\ mem'.tags = hyd'.snapshot.tags
            /\ mem'.baseVersion = IF hyd'.snapshot.baseVersion # Null
                                    THEN hyd'.snapshot.baseVersion ELSE hyd'.baseVersion
       ELSE /\ mem'.rules = mem.rules /\ mem'.tags = mem.tags
            /\ mem'.baseVersion = hyd'.baseVersion
            /\ mem'.lastPullAt = hyd'.lastPullAt

PersistFails ==
  \/ /\ OpenFail
     /\ Head(opens).t = "persist"
  \/ \E st \in {"snapshots", "meta"} :
       /\ FailTx(st)
       /\ Head(txq[st]).t = "persist"

\* C21: a failed write of a persist is not surfaced: the step in which it
\* fails changes nothing of the in-memory state (the edit stays applied,
\* error stays as it was) and rejects no call.
C21_PersistFailureNotSurfaced ==
  [][PersistFails => mem' = mem /\ pulls' = pulls /\ pushes' = pushes /\ hyd' = hyd]_vars

\* After a resolved pull a rule was added and the persist of the edit
\* failed: the rule is in memory, snapshot:current still holds the pull's
\* list, no error is recorded.
C21_Witness ==
  /\ lastCall = "edit" /\ prevCall = "pull" /\ nFail = 1 /\ NoPendingStore
  /\ pulls[1].pc = "resolved"
  /\ mem.rules = << Rule("G1.A.1", "t0"), Rule("G1.B.2", "t0") >>
  /\ idb["snapshot:current"].rules = << Rule("G1.A.1", "t0") >>
  /\ mem.error = "null"

\* The store operation that fails in this step, if one does.
FailingOp ==
  IF Len(opens) > 0 /\ opens' = Tail(opens) /\ dbInstance' = dbInstance /\ txq' = txq
    THEN Head(opens)
  ELSE IF Len(txq["snapshots"]) > 0 /\ txq'["snapshots"] = Tail(txq["snapshots"])
    THEN Head(txq["snapshots"])
  ELSE Head(txq["meta"])

C23_CurrentAndMetaConsistent ==
  (NoPendingStore /\ idb["snapshot:current"] # NoSnapshot)
    => idb["meta:baseVersion"] = idb["snapshot:current"].baseVersion

\* C24: every response with an error status and every request without a
\* response is rejected by the interceptor as one error that carries the
\* status, the server's error code if the body has one and the transport's
\* error, and whose message is the server's if the body has one, else the
\* fixed one of status 409, 400, 404 or 500, else the transport's.
C24_ErrorNormalization ==
  \A k \in 1..MaxCalls :
    (pushes[k].pc \notin {"idle", "resp"} /\ ~Is2xx(pushes[k].resp.status)) =>
      LET r == pushes[k].resp
          e == pushes[k].err
      IN /\ e # NoError
         /\ e.status = r.status
         /\ e.code = (IF r.data.present THEN r.data.error ELSE "null")
         /\ e.originalError.response = r
         /\ e.originalError.message \in {"Network Error", "Request failed"}
         /\ e.message =
              IF r.data.present /\ r.data.message # "null" THEN r.data.message
              ELSE IF r.status = 409 THEN "version conflict"
              ELSE IF r.status = 400 THEN "bad request"
              ELSE IF r.status = 404 THEN "not found"
              ELSE IF r.status = 500 THEN "internal server error"
              ELSE e.originalError.message

\* A push was answered 404 without a body: the error carries the status,
\* no code, and the fixed message of 404.
C24_Witness ==
  \E k \in 1..MaxCalls :
    /\ pushes[k].pc = "rejected" /\ pushes[k].resp.status = 404
    /\ pushes[k].err.status = 404 /\ pushes[k].err.code = "null"
    /\ pushes[k].err.message = "not found"

\* An openDB completes in this step: a connection is opened and handed to
\* the caller that waited for it.
OpenCompletes == Len(opens) > 0 /\ opens' = Tail(opens) /\ dbInstance' = Connection

\* C25: at most one connection is opened: an openDB completes only while
\* the singleton is not set, so that every caller gets the one instance.
C25_OneConnection ==
  [][OpenCompletes => dbInstance = Null]_vars

C27_QuiescentCurrentIsMemory ==
  (Quiescent /\ nFail = 0 /\ mem.baseVersion # Null)
    => /\ idb["snapshot:current"].rules = mem.rules
       /\ idb["snapshot:current"].tags = mem.tags
       /\ idb["snapshot:current"].baseVersion = mem.baseVersion

\* C28: the in-memory baseVersion, once set, is never set to a lower
\* version nor back to null.
C28_BaseVersionMonotonic ==
  [][mem.baseVersion # Null =>
       (mem'.baseVersion # Null /\ mem'.baseVersion >= mem.baseVersion)]_vars

\* C29: isLoading is true whenever the request of some pull() is
\* outstanding, and false whenever no pull is in flight.
C29_LoadingWhilePullInFlight ==
  /\ (\E p \in 1..MaxCalls : pulls[p].pc = "resp") => mem.isLoading
  /\ (\A p \in 1..MaxCalls : pulls[p].pc \notin {"resp", "saving"}) => ~mem.isLoading

\* C30: a pull() that is rejected leaves the in-memory rules, tags,
\* baseVersion and lastPullAt and every slot of the store as they were
\* before the call; stated for a pull called first, on the initial state.
C30_RejectedPullChangesNothing ==
  (nCalls = 1 /\ lastCall = "pull" /\ prevCall = "none" /\ pulls[1].pc = "rejected"
     /\ NoPendingStore)
    => /\ mem.rules = initialState.rules /\ mem.tags = initialState.tags
       /\ mem.baseVersion = initialState.baseVersion
       /\ mem.lastPullAt = initialState.lastPullAt
       /\ idb = emptyStore

====
